---- MODULE Spec2Model ----
(***************************************************************************)
(* Model of the DoceGestao point-of-sale application: the App controller   *)
(* (src/App.tsx), the POS cart and the inventory editor                    *)
(* (src/Inventory.tsx), the sales dashboard (src/Dashboard.tsx), the       *)
(* persistence adapter (src/dataService.ts) and the insights client        *)
(* (src/geminiService.ts).                                                 *)
(*                                                                         *)
(* Money is held in integer cents (3.50 is 350), time in whole hours.      *)
(* A Product is [id, price, stock]; name, category, cost and imageUrl are  *)
(* carried by the code exactly like price and are left out.                *)
(***************************************************************************)
EXTENDS Integers, Sequences, FiniteSets, TLC

VARIABLES
    cloud,          \* supabaseClient.isCloudEnabled, fixed at boot
    now,            \* the wall clock, in hours (a run stays within one hour)
    uuids,          \* how many ids crypto.randomUUID has handed out
    ls,             \* localStorage: the two blobs, <<>> when the key is absent
    loaded,         \* what fetchProducts and fetchSales deliver to loadData
    isLoading,      \* App state
    products,       \* App state: the Product collection
    sales,          \* App state: the Sale collection
    currentView,    \* App state
    cart,           \* POS state
    paymentMethod,  \* POS state
    observation,    \* POS state
    deliveryCost,   \* POS state: the text of the delivery field
    dateRange,      \* Dashboard state
    paymentFilter,  \* Dashboard state
    resolvingId,    \* Dashboard state: 0 stands for null
    tasks,          \* the handlers suspended at an await of a remote call
    acts,           \* how many mutating handlers have run with the backend on
    issued,         \* the remote calls in the order they were issued
    remoteStock,    \* the products table of the backend: the stock of each row
    aiQuery,        \* App state: the text of the question field
    aiResponse,     \* App state: the answer on display
    aiLoading,      \* App state
    asks,           \* the calls of handleAskAI suspended at getStoreInsights,
                    \* each with the question it sent
    isUploading,    \* Inventory state
    uploads,        \* the calls of handleImageUpload suspended at uploadImage
    last            \* the event that came last: an App handler, a backend answer,
                    \* or "local" for an event a view handles in its own state

vars == <<cloud, now, uuids, ls, loaded, isLoading, products, sales, currentView,
          cart, paymentMethod, observation, deliveryCost,
          dateRange, paymentFilter, resolvingId, tasks, acts, issued,
          remoteStock, aiQuery, aiResponse, aiLoading, asks, isUploading, uploads,
          last>>

appVars == <<isLoading, products, sales, currentView>>
posVars == <<cart, paymentMethod, observation, deliveryCost>>
dashVars == <<dateRange, paymentFilter, resolvingId>>
netVars == <<tasks, acts, issued>>
aiVars == <<aiQuery, aiResponse, aiLoading, asks>>
uploadVars == <<isUploading, uploads>>

-----------------------------------------------------------------------------
(* Bounds of the model *)

MaxUuids == 1       \* ids crypto.randomUUID may hand out in one run
MaxActs == 2        \* mutating handlers that may run with the backend on
MaxSales == 3       \* sales in a history the dashboard is opened on
MaxQuantity == 4    \* quantity up to which a cart entry is followed
MaxAsks == 2        \* calls of getStoreInsights that may be out at a time

-----------------------------------------------------------------------------
(* Sequence helpers standing for Array.prototype methods *)

Min(a, b) == IF a < b THEN a ELSE b
Max(a, b) == IF a > b THEN a ELSE b

FilterSeq(s, Keep(_)) ==
    LET F[i \in 0..Len(s)] ==
            IF i = 0 THEN <<>>
            ELSE IF Keep(s[i]) THEN Append(F[i - 1], s[i]) ELSE F[i - 1]
    IN  F[Len(s)]

MapSeq(s, F(_)) == [i \in 1..Len(s) |-> F(s[i])]

\* Array.prototype.reduce((acc, x) => acc + F(x), 0)
SumSeq(s, F(_)) ==
    LET S[i \in 0..Len(s)] == IF i = 0 THEN 0 ELSE S[i - 1] + F(s[i])
    IN  S[Len(s)]

\* Array.prototype.find: <<>> for undefined, else the first match in a 1-tuple
Find(s, P(_)) ==
    LET hits == FilterSeq(s, P) IN IF hits = <<>> THEN <<>> ELSE <<Head(hits)>>

Ids(s) == {s[i].id : i \in 1..Len(s)}

-----------------------------------------------------------------------------
(* Domain model *)

PaymentMethods == {"cash", "card", "pix", "pending", "ifood"}
ResolveMethods == {"cash", "card", "pix", "ifood"}
AppViews == {"DASHBOARD", "POS", "INVENTORY", "AI_ASSISTANT"}

Product(id, price, stock) == [id |-> id, price |-> price, stock |-> stock]

\* { ...product, quantity }
CartItem(p, q) ==
    [id |-> p.id, price |-> p.price, stock |-> p.stock, quantity |-> q]

\* INITIAL_PRODUCTS: the first and the fifth of the six
INITIAL_PRODUCTS == << Product(1, 350, 50), Product(5, 1000, 2) >>

\* crypto.randomUUID: the n-th id, never one of the seed ids
Uuid(n) == 100 + n

BootTime == 40 * 24 + 9

-----------------------------------------------------------------------------
(* Text and number conversions *)

Digits == "0123456789"
Char(s, i) == SubSeq(s, i, i)
IsDigit(c) == \E k \in 1..10 : Char(Digits, k) = c
DigitVal(c) == (CHOOSE k \in 1..10 : Char(Digits, k) = c) - 1

\* String.prototype.replace(c, d) with a string pattern: the first match only
ReplaceFirst(s, c, d) ==
    IF \E i \in 1..Len(s) : Char(s, i) = c
    THEN LET i == CHOOSE j \in 1..Len(s) :
                      /\ Char(s, j) = c
                      /\ \A k \in 1..(j - 1) : Char(s, k) # c
         IN  SubSeq(s, 1, i - 1) \o d \o SubSeq(s, i + 1, Len(s))
    ELSE s

\* length of the longest run of digits of s that starts at position from
DigitRun(s, from) ==
    LET R[i \in from..(Len(s) + 1)] ==
            IF i > Len(s) \/ ~IsDigit(Char(s, i)) THEN 0 ELSE 1 + R[i + 1]
    IN  IF from > Len(s) THEN 0 ELSE R[from]

\* the number written by the n digits of s from position from
DigitsValue(s, from, n) ==
    LET V[k \in 0..n] ==
            IF k = 0 THEN 0 ELSE V[k - 1] * 10 + DigitVal(Char(s, from + k - 1))
    IN  V[n]

\* parseFloat, in cents: an optional sign, digits, an optional point and
\* digits; whatever follows is ignored; NaN when no digit is found.
\* (Exponents and leading blanks are not modelled; digits after the second
\* decimal are dropped.)
ParseFloat(s) ==
    LET signed == Len(s) >= 1 /\ Char(s, 1) \in {"-", "+"}
        sign == IF signed /\ Char(s, 1) = "-" THEN -1 ELSE 1
        i0 == IF signed THEN 2 ELSE 1
        ni == DigitRun(s, i0)
        hasPoint == i0 + ni <= Len(s) /\ Char(s, i0 + ni) = "."
        f0 == i0 + ni + 1
        nf == IF hasPoint THEN DigitRun(s, f0) ELSE 0
        whole == DigitsValue(s, i0, ni)
        frac == IF nf = 0 THEN 0
                ELSE IF nf = 1 THEN 10 * DigitsValue(s, f0, 1)
                ELSE DigitsValue(s, f0, 2)
    IN  IF ni = 0 /\ nf = 0 THEN [nan |-> TRUE, val |-> 0]
        ELSE [nan |-> FALSE, val |-> sign * (whole * 100 + frac)]

\* Number.prototype.toFixed(2) of an amount in cents
ToFixed2(c) ==
    LET a == IF c < 0 THEN -c ELSE c
    IN  (IF c < 0 THEN "-" ELSE "") \o ToString(a \div 100) \o "."
        \o ToString((a % 100) \div 10) \o ToString(a % 10)

-----------------------------------------------------------------------------
(* POS: the cart (src/Inventory.tsx, second component of the file) *)

\* addToCart without the stock limit on an item already in the cart
AddToCartResult_NoLimit(prev, product) ==
    IF product.stock <= 0 THEN prev
    ELSE IF \E k \in 1..Len(prev) : prev[k].id = product.id
         THEN [k \in 1..Len(prev) |->
                  IF prev[k].id = product.id
                  THEN [prev[k] EXCEPT !.quantity = prev[k].quantity + 1]
                  ELSE prev[k]]
         ELSE Append(prev, CartItem(product, 1))

\* the state updater of addToCart, with the early return in front of it
AddToCartResult(prev, product) ==
    IF product.stock <= 0 THEN prev
    ELSE LET existing == Find(prev, LAMBDA item : item.id = product.id)
             Bump(item) == IF item.id = product.id
                           THEN [item EXCEPT !.quantity = item.quantity + 1]
                           ELSE item
         IN  IF existing # <<>>
             THEN IF existing[1].quantity >= product.stock THEN prev
                  ELSE MapSeq(prev, Bump)
             ELSE Append(prev, CartItem(product, 1))

\* updateQuantity without the filter that drops an item taken down to 0
UpdateQuantityResult_KeepsEmptied(prev, prods, id, delta) ==
    LET Adjust(item) ==
            IF item.id = id
            THEN LET newQty == item.quantity + delta
                     originalProduct == Find(prods, LAMBDA p : p.id = id)
                 IN  IF originalProduct # <<>> /\ newQty > originalProduct[1].stock
                     THEN item
                     ELSE [item EXCEPT !.quantity = Max(0, newQty)]
            ELSE item
    IN  MapSeq(prev, Adjust)

\* the state updater of updateQuantity
UpdateQuantityResult(prev, prods, id, delta) ==
    LET Adjust(item) ==
            IF item.id = id
            THEN LET newQty == item.quantity + delta
                     originalProduct == Find(prods, LAMBDA p : p.id = id)
                 IN  IF originalProduct # <<>> /\ newQty > originalProduct[1].stock
                     THEN item
                     ELSE [item EXCEPT !.quantity = Max(0, newQty)]
            ELSE item
    IN  FilterSeq(MapSeq(prev, Adjust), LAMBDA item : item.quantity > 0)

\* the state updater of removeFromCart
RemoveFromCartResult(prev, id) == FilterSeq(prev, LAMBDA item : item.id # id)

ProductsTotal(items) == SumSeq(items, LAMBDA item : item.price * item.quantity)

\* parseFloat(deliveryCost.replace(',', '.')) || 0
DeliveryValue(text) ==
    LET v == ParseFloat(ReplaceFirst(text, ",", "."))
    IN  IF v.nan \/ v.val = 0 THEN 0 ELSE v.val

-----------------------------------------------------------------------------
(* App: handleCompleteSale (src/App.tsx) *)

\* finalObs with the delivery text appended whatever the delivery cost
FinalObs_Always(obs, delivery) ==
    LET deliveryText == "[Entrega: R$ " \o ToFixed2(delivery) \o "]"
    IN  IF obs # "" THEN obs \o " " \o deliveryText ELSE deliveryText

\* finalObs: the observation with the delivery cost appended
FinalObs(obs, delivery) ==
    LET deliveryText == "[Entrega: R$ " \o ToFixed2(delivery) \o "]"
    IN  IF delivery > 0
        THEN IF obs # "" THEN obs \o " " \o deliveryText ELSE deliveryText
        ELSE obs

\* total = productsTotal + (deliveryCost || 0)
SaleTotal(items, delivery) == ProductsTotal(items) + delivery

NewSale(id, items, method, obs, delivery, date) ==
    [id |-> id, items |-> items, total |-> SaleTotal(items, delivery),
     date |-> date, paymentMethod |-> method,
     observation |-> FinalObs(obs, delivery)]

SoldItem(items, product) == Find(items, LAMBDA i : i.id = product.id)

\* the stock taken down by one whatever the quantity sold
NewStock_One(product, soldItem) == product.stock - 1

\* newStock = product.stock - soldItem.quantity
NewStock(product, soldItem) == product.stock - soldItem.quantity

\* the stock update with the sold item taken from the head of the cart
\* instead of looked up by id
UpdatedProducts_HeadItem(prods, items) ==
    [k \in 1..Len(prods) |->
        IF items # <<>>
        THEN [prods[k] EXCEPT !.stock = prods[k].stock - items[1].quantity]
        ELSE prods[k]]

UpdatedProducts(prods, items) ==
    LET Sell(product) ==
            IF SoldItem(items, product) # <<>>
            THEN [product EXCEPT
                    !.stock = NewStock(product, SoldItem(items, product)[1])]
            ELSE product
    IN  MapSeq(prods, Sell)

StockUpdates(prods, items) ==
    MapSeq(FilterSeq(prods, LAMBDA product : SoldItem(items, product) # <<>>),
           LAMBDA product :
               [id |-> product.id,
                newStock |-> NewStock(product, SoldItem(items, product)[1])])

\* handleResolvePendingSale: sales.map(...)
\* handleResolvePendingSale keeping the resolved sale alone
ResolvedSales_OnlyResolved(ss, saleId, method) ==
    MapSeq(FilterSeq(ss, LAMBDA s : s.id = saleId),
           LAMBDA s : [s EXCEPT !.paymentMethod = method])

\* handleResolvePendingSale setting the method on every sale
ResolvedSales_EverySale(ss, saleId, method) ==
    MapSeq(ss, LAMBDA s : [s EXCEPT !.paymentMethod = method])

ResolvedSales(ss, saleId, method) ==
    MapSeq(ss, LAMBDA s : IF s.id = saleId
                          THEN [s EXCEPT !.paymentMethod = method] ELSE s)

-----------------------------------------------------------------------------
(* Persistence adapter (src/dataService.ts): the remote calls of an action *)

Call(kind, id, num) == [kind |-> kind, id |-> id, num |-> num]

SaveProductCalls(product, isUpdate) ==
    IF cloud
    THEN << Call(IF isUpdate THEN "products.update" ELSE "products.insert",
                 product.id, product.stock) >>
    ELSE <<>>

DeleteProductCalls(id) ==
    IF cloud THEN << Call("products.delete", id, 0) >> ELSE <<>>

SaveSaleCalls(sale) ==
    IF cloud THEN << Call("sales.insert", sale.id, sale.total) >> ELSE <<>>

UpdateSalePaymentCalls(saleId) ==
    IF cloud THEN << Call("sales.update", saleId, 0) >> ELSE <<>>

\* updateStockBatch sending the whole batch in one call, that of its first
\* item
UpdateStockBatchCalls_OneCall(items) ==
    IF cloud /\ items # <<>>
    THEN << Call("products.updateStock", items[1].id, items[1].newStock) >>
    ELSE <<>>

UpdateStockBatchCalls(items) ==
    IF cloud
    THEN MapSeq(items, LAMBDA item : Call("products.updateStock", item.id, item.newStock))
    ELSE <<>>

\* A handler reaches its awaits: the first call is issued at once, the
\* others wait, each for the one before it to complete.
Issue(act, call) ==
    [act |-> act, kind |-> call.kind, id |-> call.id, num |-> call.num]

Persist(calls) ==
    IF calls = <<>>
    THEN UNCHANGED netVars
    ELSE /\ acts < MaxActs
         /\ acts' = acts + 1
         /\ issued' = Append(issued, Issue(acts + 1, Head(calls)))
         /\ tasks' = tasks \cup {[act |-> acts + 1, calls |-> calls]}

\* The products table of the backend, as the stock of each row
StockTable(prods) ==
    [id \in Ids(prods) |-> Find(prods, LAMBDA p : p.id = id)[1].stock]

\* what a call does to the table once the backend has carried it out: insert
\* adds a row, update(...).eq('id', id) and delete().eq('id', id) act on the
\* row of that id if there is one, a call on the sales table leaves it alone
ApplyCall(table, call) ==
    CASE call.kind = "products.insert" ->
            [id \in DOMAIN table \cup {call.id} |->
                IF id = call.id THEN call.num ELSE table[id]]
      [] call.kind \in {"products.update", "products.updateStock"} ->
            [id \in DOMAIN table |-> IF id = call.id THEN call.num ELSE table[id]]
      [] call.kind = "products.delete" ->
            [id \in DOMAIN table \ {call.id} |-> table[id]]
      [] OTHER -> table

\* the tables the calls in flight can leave when the page ends: each call
\* lands or is lost, in any order
RECURSIVE Landings(_, _)
Landings(table, calls) ==
    {table} \cup UNION {Landings(ApplyCall(table, call), calls \ {call}) : call \in calls}

\* the effect writing the two blobs whether the backend is on or off
Mirror_Always(prods, ss) == [products |-> <<prods>>, sales |-> <<ss>>]

\* The effect on [products, sales]: the two blobs follow every state change
\* when the backend is off
Mirror(prods, ss) ==
    IF cloud THEN ls ELSE [products |-> <<prods>>, sales |-> <<ss>>]

-----------------------------------------------------------------------------
(* Dashboard: filtering and totals (src/Dashboard.tsx) *)

DateRanges == {"today", "week", "month", "all"}
PaymentFilters == {"all", "cash", "card", "pix", "ifood", "pending"}

\* new Date(y, m, d).getTime(): local midnight, the epoch taken at midnight
TodayStart(t) == t - (t % 24)
WeekStart(t) == t - 7 * 24
MonthStart(t) == t - 30 * 24

\* the week and the month counted from local midnight instead of from now
DateMatch_FromMidnight(sale, range, t) ==
    IF range = "today" THEN sale.date >= TodayStart(t)
    ELSE IF range = "week" THEN sale.date >= TodayStart(t) - 7 * 24
    ELSE IF range = "month" THEN sale.date >= TodayStart(t) - 30 * 24
    ELSE TRUE

DateMatch(sale, range, t) ==
    IF range = "today" THEN sale.date >= TodayStart(t)
    ELSE IF range = "week" THEN sale.date >= WeekStart(t)
    ELSE IF range = "month" THEN sale.date >= MonthStart(t)
    ELSE TRUE

PaymentMatch(sale, filter) ==
    IF filter # "all" THEN sale.paymentMethod = filter ELSE TRUE

FilteredSales(ss, range, filter, t) ==
    FilterSeq(ss, LAMBDA sale : DateMatch(sale, range, t) /\ PaymentMatch(sale, filter))

\* the received total taken over every filtered sale
TotalRevenue_EverySale(fs) == SumSeq(fs, LAMBDA sale : sale.total)

TotalRevenue(fs) ==
    SumSeq(FilterSeq(fs, LAMBDA s : s.paymentMethod # "pending"), LAMBDA sale : sale.total)

PendingRevenue(fs) ==
    SumSeq(FilterSeq(fs, LAMBDA s : s.paymentMethod = "pending"), LAMBDA sale : sale.total)

TotalSalesCount(fs) == Len(fs)

\* the list on screen: filteredSales.slice().reverse().slice(0, 50)
RecentLimit == 50
Reverse(s) == [i \in 1..Len(s) |-> s[Len(s) + 1 - i]]
ShownSales(fs) == SubSeq(Reverse(fs), 1, Min(RecentLimit, Len(fs)))

filteredSales == FilteredSales(sales, dateRange, paymentFilter, now)

-----------------------------------------------------------------------------
(* Dashboard: the chart series (src/Dashboard.tsx) *)

\* d.getHours()
HourOf(date) == date % 24

\* toLocaleDateString('pt-BR', {day: '2-digit', month: '2-digit'}): the day
\* and the month without the year, here the day's place in a year of 365 days
DayKey(date) == (date \div 24) % 365

Point(name, vendas) == [name |-> name, vendas |-> vendas]

\* the chart of 'today' with its fourteen hours starting at 9
HourSeries_FromNine(fs) ==
    [i \in 1..14 |->
        Point(i + 8, SumSeq(FilterSeq(fs, LAMBDA s : HourOf(s.date) = i + 8),
                            LAMBDA s : s.total))]

\* the chart of 'today': one point for each hour from 8 to 21
HourSeries(fs) ==
    [i \in 1..14 |->
        Point(i + 7, SumSeq(FilterSeq(fs, LAMBDA s : HourOf(s.date) = i + 7),
                            LAMBDA s : s.total))]

DaysToGenerate(range) ==
    IF range = "week" THEN 7 ELSE IF range = "month" THEN 30 ELSE 0

\* daysMap after the loop that sets every day of the range to 0
SeededDays(range, t) ==
    LET n == DaysToGenerate(range)
    IN  [k \in 1..n |-> Point(DayKey(t - (n - k) * 24), 0)]

\* daysMap.set(key, current + sale.total): a key the map holds keeps its
\* place, a new key goes to the end
AddToDay(days, sale) ==
    LET key == DayKey(sale.date)
    IN  IF \E k \in 1..Len(days) : days[k].name = key
        THEN [k \in 1..Len(days) |->
                IF days[k].name = key
                THEN Point(key, days[k].vendas + sale.total)
                ELSE days[k]]
        ELSE Append(days, Point(key, sale.total))

DaySeries(fs, range, t) ==
    LET acc[i \in 0..Len(fs)] ==
            IF i = 0 THEN SeededDays(range, t) ELSE AddToDay(acc[i - 1], fs[i])
    IN  acc[Len(fs)]

ChartData(fs, range, t) ==
    IF range = "today" THEN HourSeries(fs) ELSE DaySeries(fs, range, t)

chartData == ChartData(filteredSales, dateRange, now)

-----------------------------------------------------------------------------
(* Dashboard: the low-stock signal (src/Dashboard.tsx) *)

LOW_STOCK_COUNT_THRESHOLD == 5

\* products.filter(p => p.stock < 5).length
LowStockProducts(prods) == Len(FilterSeq(prods, LAMBDA p : p.stock < 5))

\* the alert shown as soon as one product is low on stock
ShowStockAlert_AnyLow(prods) == LowStockProducts(prods) > 0

ShowStockAlert(prods) == LowStockProducts(prods) >= LOW_STOCK_COUNT_THRESHOLD

lowStockProducts == LowStockProducts(products)
showStockAlert == ShowStockAlert(products)

-----------------------------------------------------------------------------
(* What the backend or localStorage holds when the application boots *)

\* the two products after earlier sales: two of each left, or one of each
StockedProducts == << Product(1, 350, 2), Product(5, 1000, 2) >>
SparseProducts == << Product(1, 350, 1), Product(5, 1000, 1) >>

\* a sale on credit recorded the day before
SavedSale ==
    [id |-> 90, items |-> << CartItem(Product(1, 350, 3), 1) >>, total |-> 350,
     date |-> BootTime - 24, paymentMethod |-> "pending", observation |-> ""]

Store(prods, ss) == [products |-> prods, sales |-> ss]

\* the two blobs of localStorage: <<>> for a key that is not there
Absent == [products |-> <<>>, sales |-> <<>>]
Saved(store) == [products |-> <<store.products>>, sales |-> <<store.sales>>]

Stores == { Store(StockedProducts, <<>>), Store(StockedProducts, <<SavedSale>>),
            Store(SparseProducts, <<SavedSale>>) }

\* the rows the products table can hold at boot
RemoteRows == {st.products : st \in Stores} \cup {<<>>}

\* fetchProducts and fetchSales without the backend: the saved blob, or
\* INITIAL_PRODUCTS and no sales
FetchLocal(blobs) ==
    Store(IF blobs.products # <<>> THEN blobs.products[1] ELSE INITIAL_PRODUCTS,
          IF blobs.sales # <<>> THEN blobs.sales[1] ELSE <<>>)

\* fetchProducts and fetchSales with the backend: the rows of each table, or
\* [] for a select that comes back with an error
FetchRemote ==
    {Store(prods, ss) : prods \in {st.products : st \in Stores} \cup {<<>>},
                        ss \in {st.sales : st \in Stores} \cup {<<>>}}

-----------------------------------------------------------------------------
(* The state machine *)

Op(name, arg) == [op |-> name, arg |-> arg]

Init ==
    /\ cloud \in BOOLEAN
    /\ now = BootTime
    /\ uuids = 0
    \* fetchProducts and fetchSales have read the store; then the effect on
    \* [products, sales] has run once, on the empty collections
    /\ loaded \in (IF cloud THEN FetchRemote
                   ELSE {FetchLocal(blobs) : blobs \in {Absent} \cup {Saved(st) : st \in Stores}})
    /\ ls = IF cloud THEN Absent ELSE Saved(Store(<<>>, <<>>))
    /\ isLoading = TRUE
    /\ products = <<>>
    /\ sales = <<>>
    /\ currentView = "POS"
    /\ cart = <<>>
    /\ paymentMethod = "cash"
    /\ observation = ""
    /\ deliveryCost = ""
    /\ dateRange = "week"
    /\ paymentFilter = "all"
    /\ resolvingId = 0
    /\ tasks = {}
    /\ acts = 0
    /\ issued = <<>>
    \* the rows of the products table: those that fetchProducts delivered, or
    \* any when its select came back with an error
    /\ remoteStock \in (IF cloud
                        THEN {StockTable(rows) : rows \in
                                 {r \in RemoteRows : loaded.products \in {r, <<>>}}}
                        ELSE {StockTable(<<>>)})
    /\ aiQuery = ""
    /\ aiResponse = ""
    /\ aiLoading = FALSE
    /\ asks = <<>>
    /\ isUploading = FALSE
    /\ uploads = 0
    /\ last = Op("mount", 0)

\* loadData, once Promise.all has resolved
LoadData ==
    /\ isLoading
    /\ products' = loaded.products
    /\ sales' = loaded.sales
    /\ isLoading' = FALSE
    /\ ls' = Mirror(products', sales')
    /\ last' = Op("loadData", 0)
    /\ UNCHANGED <<cloud, now, uuids, loaded, currentView, posVars, dashVars,
                   netVars, remoteStock, aiVars, uploadVars>>

\* loadData, once Promise.all has rejected: the catch block logs the error
\* and the finally block clears the flag
LoadDataRejected ==
    /\ isLoading
    /\ isLoading' = FALSE
    /\ last' = Op("loadData", 1)
    /\ UNCHANGED <<cloud, now, uuids, ls, loaded, products, sales, currentView,
                   posVars, dashVars, netVars, remoteStock, aiVars, uploadVars>>

\* The page reloaded, with the effect on [products, sales] writing the empty
\* collections before fetchProducts and fetchSales read the blobs
Reload_MirrorFirst ==
    /\ cloud \/ ~isLoading
    /\ loaded' \in (IF cloud THEN FetchRemote
                    ELSE {FetchLocal(Saved(Store(<<>>, <<>>)))})
    /\ ls' = IF cloud THEN ls ELSE Saved(Store(<<>>, <<>>))
    /\ isLoading' = TRUE
    /\ products' = <<>>
    /\ sales' = <<>>
    /\ currentView' = "POS"
    /\ cart' = <<>>
    /\ paymentMethod' = "cash"
    /\ observation' = ""
    /\ deliveryCost' = ""
    /\ dateRange' = "week"
    /\ paymentFilter' = "all"
    /\ resolvingId' = 0
    /\ tasks' = {}
    /\ remoteStock' \in Landings(remoteStock, {Head(task.calls) : task \in tasks})
    /\ aiQuery' = ""
    /\ aiResponse' = ""
    /\ aiLoading' = FALSE
    /\ asks' = <<>>
    /\ isUploading' = FALSE
    /\ uploads' = 0
    /\ last' = Op("mount", 0)
    /\ UNCHANGED <<cloud, now, uuids, acts, issued>>

\* The page reloaded: App mounts again on empty collections.  The effects of
\* the first render run in order: loadData calls fetchProducts and
\* fetchSales, which read the blobs before their first await, and then the
\* effect on [products, sales] writes the empty collections.  With the
\* backend off the load completes before the browser takes the next event.
\* The handlers suspended at an await end with the page.
Reload ==
    /\ cloud \/ ~isLoading
    /\ loaded' \in (IF cloud THEN FetchRemote ELSE {FetchLocal(ls)})
    /\ ls' = IF cloud THEN ls ELSE Saved(Store(<<>>, <<>>))
    /\ isLoading' = TRUE
    /\ products' = <<>>
    /\ sales' = <<>>
    /\ currentView' = "POS"
    /\ cart' = <<>>
    /\ paymentMethod' = "cash"
    /\ observation' = ""
    /\ deliveryCost' = ""
    /\ dateRange' = "week"
    /\ paymentFilter' = "all"
    /\ resolvingId' = 0
    /\ tasks' = {}
    /\ remoteStock' \in Landings(remoteStock, {Head(task.calls) : task \in tasks})
    /\ aiQuery' = ""
    /\ aiResponse' = ""
    /\ aiLoading' = FALSE
    /\ asks' = <<>>
    /\ isUploading' = FALSE
    /\ uploads' = 0
    /\ last' = Op("mount", 0)
    /\ UNCHANGED <<cloud, now, uuids, acts, issued>>

\* NavItem onClick: the view that is left is unmounted and loses its state
SetView(view) ==
    /\ ~isLoading
    /\ view # currentView
    /\ currentView' = view
    /\ cart' = <<>>
    /\ paymentMethod' = "cash"
    /\ observation' = ""
    /\ deliveryCost' = ""
    /\ dateRange' = "week"
    /\ paymentFilter' = "all"
    /\ resolvingId' = 0
    \* an upload of the Inventory that is left completes on nothing
    /\ isUploading' = FALSE
    /\ uploads' = 0
    /\ last' = Op("local", 0)
    /\ UNCHANGED <<cloud, now, uuids, ls, loaded, isLoading, products, sales, netVars,
                   remoteStock, aiVars>>

InPOS == ~isLoading /\ currentView = "POS"
InInventory == ~isLoading /\ currentView = "INVENTORY"
InDashboard == ~isLoading /\ currentView = "DASHBOARD"

-----------------------------------------------------------------------------
(* POS actions *)

\* what the user types or clicks, drawn from small sets
Observations == {"", "Joao"}
DeliveryTexts == {"", "5,00", "2.50", "-5", "x"}
Deltas == {-2, -1, 1, 2}

\* addToCart on a product card (the card's disabled attribute repeats the
\* handler's own early return)
AddToCart(i) ==
    /\ InPOS
    /\ cart' = AddToCartResult(cart, products[i])
    /\ last' = Op("addToCart", 0)
    /\ UNCHANGED <<cloud, now, uuids, ls, loaded, appVars, paymentMethod,
                   observation, deliveryCost, dashVars, netVars, remoteStock,
                   aiVars, uploadVars>>

UpdateQuantity(id, delta) ==
    /\ InPOS
    /\ id \in Ids(cart)
    /\ cart' = UpdateQuantityResult(cart, products, id, delta)
    /\ last' = Op("updateQuantity", 0)
    /\ UNCHANGED <<cloud, now, uuids, ls, loaded, appVars, paymentMethod,
                   observation, deliveryCost, dashVars, netVars, remoteStock,
                   aiVars, uploadVars>>

RemoveFromCart(id) ==
    /\ InPOS
    /\ id \in Ids(cart)
    /\ cart' = RemoveFromCartResult(cart, id)
    /\ last' = Op("removeFromCart", 0)
    /\ UNCHANGED <<cloud, now, uuids, ls, loaded, appVars, paymentMethod,
                   observation, deliveryCost, dashVars, netVars, remoteStock,
                   aiVars, uploadVars>>

SetPaymentMethod(method) ==
    /\ InPOS
    /\ paymentMethod' = method
    /\ last' = Op("local", 0)
    /\ UNCHANGED <<cloud, now, uuids, ls, loaded, appVars, cart, observation,
                   deliveryCost, dashVars, netVars, remoteStock, aiVars,
                   uploadVars>>

SetObservation(text) ==
    /\ InPOS
    /\ observation' = text
    /\ last' = Op("local", 0)
    /\ UNCHANGED <<cloud, now, uuids, ls, loaded, appVars, cart, paymentMethod,
                   deliveryCost, dashVars, netVars, remoteStock, aiVars,
                   uploadVars>>

SetDeliveryCost(text) ==
    /\ InPOS
    /\ deliveryCost' = text
    /\ last' = Op("local", 0)
    /\ UNCHANGED <<cloud, now, uuids, ls, loaded, appVars, cart, paymentMethod,
                   observation, dashVars, netVars, remoteStock, aiVars,
                   uploadVars>>

\* handleCompleteSale setting the Sale collection to the new sale alone
CompleteSale_DropsEarlier(items, method, obs, delivery) ==
    LET newSale == NewSale(Uuid(uuids), items, method, obs, delivery, now)
    IN  /\ uuids < MaxUuids
        /\ uuids' = uuids + 1
        /\ sales' = <<newSale>>
        /\ products' = UpdatedProducts(products, items)
        /\ ls' = Mirror(products', sales')
        /\ Persist(SaveSaleCalls(newSale)
                   \o UpdateStockBatchCalls(StockUpdates(products, items)))

\* App.handleCompleteSale, as handleCheckout calls it
CompleteSale(items, method, obs, delivery) ==
    LET newSale == NewSale(Uuid(uuids), items, method, obs, delivery, now)
    IN  /\ uuids < MaxUuids
        /\ uuids' = uuids + 1
        /\ sales' = Append(sales, newSale)
        /\ products' = UpdatedProducts(products, items)
        /\ ls' = Mirror(products', sales')
        /\ Persist(SaveSaleCalls(newSale)
                   \o UpdateStockBatchCalls(StockUpdates(products, items)))

\* handleCheckout without the return on an empty cart
HandleCheckout_NoGuard ==
    /\ InPOS
    /\ CompleteSale(cart, paymentMethod, observation, DeliveryValue(deliveryCost))
    /\ cart' = <<>>
    /\ paymentMethod' = "cash"
    /\ observation' = ""
    /\ deliveryCost' = ""
    /\ last' = Op("handleCheckout", IF cart = <<>> THEN 0 ELSE 1)
    /\ UNCHANGED <<cloud, now, loaded, isLoading, currentView, dashVars,
                   remoteStock, aiVars, uploadVars>>

\* POS.handleCheckout
HandleCheckout ==
    /\ InPOS
    /\ IF cart = <<>>
       THEN /\ last' = Op("handleCheckout", 0)
            /\ UNCHANGED <<uuids, ls, products, sales, posVars, netVars>>
       ELSE /\ CompleteSale(cart, paymentMethod, observation, DeliveryValue(deliveryCost))
            /\ cart' = <<>>
            /\ paymentMethod' = "cash"
            /\ observation' = ""
            /\ deliveryCost' = ""
            /\ last' = Op("handleCheckout", 1)
    /\ UNCHANGED <<cloud, now, loaded, isLoading, currentView, dashVars,
                   remoteStock, aiVars, uploadVars>>

-----------------------------------------------------------------------------
(* Inventory actions (src/Inventory.tsx, first component of the file) *)

\* what the form can submit: price and stock (type="number" inputs)
FormPrices == {1000}
FormStocks == {-1, 1}

\* handleSubmit with editingId null: App.handleAddProduct
AddProduct(price, stock) ==
    LET product == Product(Uuid(uuids), price, stock)
    IN  /\ InInventory
        /\ uuids < MaxUuids
        /\ uuids' = uuids + 1
        /\ products' = Append(products, product)
        /\ ls' = Mirror(products', sales)
        /\ Persist(SaveProductCalls(product, FALSE))
        /\ last' = Op("handleAddProduct", 0)
        /\ UNCHANGED <<cloud, now, loaded, isLoading, sales, currentView, posVars,
                       dashVars, remoteStock, aiVars, uploadVars>>

\* handleSubmit with editingId set: App.handleUpdateProduct
UpdateProduct(id, price, stock) ==
    LET updatedProduct == Product(id, price, stock)
    IN  /\ InInventory
        /\ id \in Ids(products)
        /\ products' = MapSeq(products, LAMBDA p : IF p.id = id THEN updatedProduct ELSE p)
        /\ ls' = Mirror(products', sales)
        /\ Persist(SaveProductCalls(updatedProduct, TRUE))
        /\ last' = Op("handleUpdateProduct", 0)
        /\ UNCHANGED <<cloud, now, uuids, loaded, isLoading, sales, currentView,
                       posVars, dashVars, remoteStock, aiVars, uploadVars>>

\* App.handleDeleteProduct
DeleteProduct(id) ==
    /\ InInventory
    /\ id \in Ids(products)
    /\ products' = FilterSeq(products, LAMBDA p : p.id # id)
    /\ ls' = Mirror(products', sales)
    /\ Persist(DeleteProductCalls(id))
    /\ last' = Op("handleDeleteProduct", 0)
    /\ UNCHANGED <<cloud, now, uuids, loaded, isLoading, sales, currentView,
                   posVars, dashVars, remoteStock, aiVars, uploadVars>>

-----------------------------------------------------------------------------
(* Dashboard actions *)

SetDateRange(range) ==
    /\ InDashboard
    /\ dateRange' = range
    /\ last' = Op("local", 0)
    /\ UNCHANGED <<cloud, now, uuids, ls, loaded, appVars, posVars, paymentFilter,
                   resolvingId, netVars, remoteStock, aiVars, uploadVars>>

SetPaymentFilter(filter) ==
    /\ InDashboard
    /\ paymentFilter' = filter
    /\ last' = Op("local", 0)
    /\ UNCHANGED <<cloud, now, uuids, ls, loaded, appVars, posVars, dateRange,
                   resolvingId, netVars, remoteStock, aiVars, uploadVars>>

\* the "Receber" button shown on every row, whatever its payment method
Receivable_AnyMethod(sale) ==
    \E i \in 1..Len(ShownSales(filteredSales)) : ShownSales(filteredSales)[i] = sale

\* the rows that show the "Receber" button
Receivable(sale) ==
    /\ \E i \in 1..Len(ShownSales(filteredSales)) : ShownSales(filteredSales)[i] = sale
    /\ sale.paymentMethod = "pending"

\* the "Receber" button: opens or closes the row's payment options
ToggleResolving(saleId) ==
    /\ InDashboard
    /\ \E i \in 1..Len(sales) : sales[i].id = saleId /\ Receivable(sales[i])
    /\ resolvingId' = IF resolvingId = saleId THEN 0 ELSE saleId
    /\ last' = Op("local", 0)
    /\ UNCHANGED <<cloud, now, uuids, ls, loaded, appVars, posVars, dateRange,
                   paymentFilter, netVars, remoteStock, aiVars, uploadVars>>

\* the rows that show the four payment buttons
Resolvable(sale) == resolvingId = sale.id /\ Receivable(sale)

\* one of the four buttons: App.handleResolvePendingSale, then setResolvingId(null)
ResolvePendingSale(saleId, method) ==
    /\ InDashboard
    /\ \E i \in 1..Len(sales) : sales[i].id = saleId /\ Resolvable(sales[i])
    /\ sales' = ResolvedSales(sales, saleId, method)
    /\ ls' = Mirror(products, sales')
    /\ Persist(UpdateSalePaymentCalls(saleId))
    /\ resolvingId' = 0
    /\ last' = Op("handleResolvePendingSale", saleId)
    /\ UNCHANGED <<cloud, now, uuids, loaded, isLoading, products, currentView,
                   posVars, dateRange, paymentFilter, remoteStock, aiVars,
                   uploadVars>>

-----------------------------------------------------------------------------
(* The backend answers *)

\* A completion that reloads the collections from the backend when the call
\* has failed
CompleteCall_ReloadsOnError(task, ok) ==
    /\ task \in tasks
    /\ LET rest == Tail(task.calls)
       IN  IF rest = <<>>
           THEN /\ tasks' = tasks \ {task}
                /\ issued' = issued
           ELSE /\ tasks' = (tasks \ {task}) \cup {[task EXCEPT !.calls = rest]}
                /\ issued' = Append(issued, Issue(task.act, Head(rest)))
    /\ products' = IF ok THEN products ELSE loaded.products
    /\ sales' = IF ok THEN sales ELSE loaded.sales
    /\ remoteStock' = IF ok THEN ApplyCall(remoteStock, Head(task.calls)) ELSE remoteStock
    /\ last' = Op("completeCall", IF ok THEN 1 ELSE 0)
    /\ UNCHANGED <<cloud, now, uuids, ls, loaded, isLoading, currentView, posVars,
                   dashVars, acts, aiVars, uploadVars>>

\* The call a handler awaits completes, with or without an error: the
\* backend has carried it out, or has refused it.  The handler goes on to its
\* next call, or returns.
CompleteCall(task, ok) ==
    /\ task \in tasks
    /\ LET rest == Tail(task.calls)
       IN  IF rest = <<>>
           THEN /\ tasks' = tasks \ {task}
                /\ issued' = issued
           ELSE /\ tasks' = (tasks \ {task}) \cup {[task EXCEPT !.calls = rest]}
                /\ issued' = Append(issued, Issue(task.act, Head(rest)))
    /\ remoteStock' = IF ok THEN ApplyCall(remoteStock, Head(task.calls)) ELSE remoteStock
    /\ last' = Op("completeCall", IF ok THEN 1 ELSE 0)
    /\ UNCHANGED <<cloud, now, uuids, ls, loaded, appVars, posVars, dashVars,
                   acts, aiVars, uploadVars>>

-----------------------------------------------------------------------------
(* The insights client (src/geminiService.ts) *)

\* what the catch block of getStoreInsights returns
ConnectError ==
    "Nao foi possivel conectar com a IA. Verifique se a chave de API esta configurada corretamente no Vercel."

\* what getStoreInsights returns for a response without text
NoAnswer == "Desculpe, nao consegui analisar os dados no momento."

\* the text the service answers a question with
Answer(question) == "Resposta a: " \o question

\* How a call of getStoreInsights ends: getAIClient throws for want of an API
\* key, generateContent rejects, or it resolves to a response with its text.
Outcome(kind, text) == [kind |-> kind, text |-> text]

Outcomes(question) ==
    {Outcome("nokey", ""), Outcome("rejected", ""),
     Outcome("response", Answer(question)), Outcome("response", "")}

\* getStoreInsights: response.text || NoAnswer, and ConnectError from the
\* catch block
GetStoreInsights(outcome) ==
    IF outcome.kind = "response"
    THEN IF outcome.text # "" THEN outcome.text ELSE NoAnswer
    ELSE ConnectError

-----------------------------------------------------------------------------
(* The assistant view (src/App.tsx) *)

InAssistant == ~isLoading /\ currentView = "AI_ASSISTANT"

\* what is typed in the question field
Questions == {"", " ", "estoque", "vendas"}

\* aiQuery.trim() is the empty string
TrimsToEmpty(text) == \A i \in 1..Len(text) : Char(text, i) = " "

RemoveAt(s, i) == SubSeq(s, 1, i - 1) \o SubSeq(s, i + 1, Len(s))

\* onChange of the question field
SetAiQuery(text) ==
    /\ InAssistant
    /\ aiQuery' = text
    /\ last' = Op("local", 0)
    /\ UNCHANGED <<cloud, now, uuids, ls, loaded, appVars, posVars, dashVars,
                   netVars, remoteStock, aiResponse, aiLoading, asks, uploadVars>>

\* handleAskAI, from the Enter key of the question field (byKey) or from the
\* button, which is disabled while aiLoading
AskAI(byKey) ==
    /\ InAssistant
    /\ byKey \/ ~aiLoading
    /\ IF TrimsToEmpty(aiQuery)
       THEN /\ last' = Op("handleAskAI", 0)
            /\ UNCHANGED <<aiLoading, asks>>
       ELSE /\ Len(asks) < MaxAsks
            /\ aiLoading' = TRUE
            /\ asks' = Append(asks, aiQuery)
            /\ last' = Op("handleAskAI", 1)
    /\ UNCHANGED <<cloud, now, uuids, ls, loaded, appVars, posVars, dashVars,
                   netVars, remoteStock, aiQuery, aiResponse, uploadVars>>

\* handleAskAI resuming after its await: the i-th call of getStoreInsights
\* still out has returned
CompleteAsk(i, outcome) ==
    /\ i \in 1..Len(asks)
    /\ outcome \in Outcomes(asks[i])
    /\ aiResponse' = GetStoreInsights(outcome)
    /\ aiLoading' = FALSE
    /\ asks' = RemoveAt(asks, i)
    /\ last' = Op("completeAsk", i)
    /\ UNCHANGED <<cloud, now, uuids, ls, loaded, appVars, posVars, dashVars,
                   netVars, remoteStock, aiQuery, uploadVars>>

-----------------------------------------------------------------------------
(* The image of a product (src/Inventory.tsx, src/dataService.ts) *)

\* handleImageUpload on a change of the file input, which is disabled while
\* isUploading; hasFile is e.target.files?.[0]
ImageUpload(hasFile) ==
    /\ InInventory
    /\ ~isUploading
    /\ IF hasFile
       THEN /\ isUploading' = TRUE
            /\ uploads' = uploads + 1
            /\ last' = Op("handleImageUpload", 1)
       ELSE /\ last' = Op("handleImageUpload", 0)
            /\ UNCHANGED uploadVars
    /\ UNCHANGED <<cloud, now, uuids, ls, loaded, appVars, posVars, dashVars,
                   netVars, remoteStock, aiVars>>

\* handleImageUpload with the flag cleared only when uploadImage has
\* returned a URL
CompleteUpload_KeepsFlagOnFailure(ok) ==
    /\ uploads > 0
    /\ ok => cloud
    /\ isUploading' = IF ok THEN FALSE ELSE isUploading
    /\ uploads' = uploads - 1
    /\ last' = Op("completeUpload", IF ok THEN 1 ELSE 0)
    /\ UNCHANGED <<cloud, now, uuids, ls, loaded, appVars, posVars, dashVars,
                   netVars, remoteStock, aiVars>>

\* handleImageUpload resuming after its await: uploadImage has returned the
\* public URL (ok), or null after an alert: the backend is off, or the upload
\* has failed.  The URL goes to the image field of the form, which a Product
\* of this model leaves out.
CompleteUpload(ok) ==
    /\ uploads > 0
    /\ ok => cloud
    /\ isUploading' = FALSE
    /\ uploads' = uploads - 1
    /\ last' = Op("completeUpload", IF ok THEN 1 ELSE 0)
    /\ UNCHANGED <<cloud, now, uuids, ls, loaded, appVars, posVars, dashVars,
                   netVars, remoteStock, aiVars>>

-----------------------------------------------------------------------------
(* Specifications.  Next is every action on every modelled input.  Each     *)
(* specification below it takes the same actions on the screens and the     *)
(* inputs of one concern, from the boot states that concern needs.          *)

Next ==
    \/ LoadData
    \/ LoadDataRejected
    \/ Reload
    \/ \E view \in AppViews : SetView(view)
    \/ \E i \in 1..Len(products) : AddToCart(i)
    \/ \E id \in Ids(cart), delta \in Deltas : UpdateQuantity(id, delta)
    \/ \E id \in Ids(cart) : RemoveFromCart(id)
    \/ \E method \in PaymentMethods : SetPaymentMethod(method)
    \/ \E text \in Observations : SetObservation(text)
    \/ \E text \in DeliveryTexts : SetDeliveryCost(text)
    \/ HandleCheckout
    \/ \E price \in FormPrices, stock \in FormStocks : AddProduct(price, stock)
    \/ \E id \in Ids(products), price \in FormPrices, stock \in FormStocks :
          UpdateProduct(id, price, stock)
    \/ \E id \in Ids(products) : DeleteProduct(id)
    \/ \E range \in DateRanges : SetDateRange(range)
    \/ \E filter \in PaymentFilters : SetPaymentFilter(filter)
    \/ \E saleId \in Ids(sales) : ToggleResolving(saleId)
    \/ \E saleId \in Ids(sales), method \in ResolveMethods :
          ResolvePendingSale(saleId, method)
    \/ \E task \in tasks, ok \in BOOLEAN : CompleteCall(task, ok)
    \/ \E text \in Questions : SetAiQuery(text)
    \/ \E byKey \in BOOLEAN : AskAI(byKey)
    \/ \E i \in 1..Len(asks) : \E outcome \in Outcomes(asks[i]) : CompleteAsk(i, outcome)
    \/ \E hasFile \in BOOLEAN : ImageUpload(hasFile)
    \/ \E ok \in BOOLEAN : CompleteUpload(ok)

Spec == Init /\ [][Next]_vars

\* The cart against the Product collection: the register, the inventory
\* editor and the navigation, without the backend
NextCart ==
    \/ LoadData
    \/ \E view \in AppViews : SetView(view)
    \/ \E i \in 1..Len(products) : AddToCart(i)
    \/ \E id \in Ids(cart), delta \in Deltas : UpdateQuantity(id, delta)
    \/ \E id \in Ids(cart) : RemoveFromCart(id)
    \/ HandleCheckout
    \/ \E id \in Ids(products), price \in FormPrices, stock \in FormStocks :
          UpdateProduct(id, price, stock)
    \/ \E id \in Ids(products) : DeleteProduct(id)

\* the backend off, two of each product in the store, no sale yet
InitCart == Init /\ ~cloud /\ loaded = Store(StockedProducts, <<>>)

SpecCart == InitCart /\ [][NextCart]_vars

\* The delivery field: the register with every delivery text
NextDelivery ==
    \/ LoadData
    \/ \E i \in 1..Len(products) : AddToCart(i)
    \/ \E text \in DeliveryTexts : SetDeliveryCost(text)
    \/ HandleCheckout

SpecDelivery == InitCart /\ [][NextDelivery]_vars

\* The checkout form: the register with every payment method, an
\* observation and a delivery cost, with and without the backend
NextCheckout ==
    \/ LoadData
    \/ \E i \in 1..Len(products) : AddToCart(i)
    \/ \E method \in {"cash", "card", "pending"} : SetPaymentMethod(method)
    \/ SetObservation("Joao")
    \/ SetDeliveryCost("2.50")
    \/ HandleCheckout
    \/ \E task \in tasks, ok \in BOOLEAN : CompleteCall(task, ok)

\* one of each product in the store, and a sale on credit
InitCheckout == Init /\ loaded = Store(SparseProducts, <<SavedSale>>)

SpecCheckout == InitCheckout /\ [][NextCheckout]_vars

\* The life of a sale: the register and the dashboard, the backend off
NextSales ==
    \/ LoadData
    \/ \E view \in {"POS", "DASHBOARD"} : SetView(view)
    \/ \E i \in 1..Len(products) : AddToCart(i)
    \/ \E method \in {"card", "pending"} : SetPaymentMethod(method)
    \/ HandleCheckout
    \/ \E range \in DateRanges : SetDateRange(range)
    \/ \E filter \in PaymentFilters : SetPaymentFilter(filter)
    \/ \E saleId \in Ids(sales) : ToggleResolving(saleId)
    \/ \E saleId \in Ids(sales), method \in ResolveMethods :
          ResolvePendingSale(saleId, method)

InitSales == InitCheckout /\ ~cloud

SpecSales == InitSales /\ [][NextSales]_vars

\* Persistence: every mutating action with the backend on, and the answers
\* of the backend in any order
NextSync ==
    \/ LoadData
    \/ \E view \in {"POS", "INVENTORY", "DASHBOARD"} : SetView(view)
    \/ \E i \in 1..Len(products) : AddToCart(i)
    \/ HandleCheckout
    \/ AddProduct(1000, 1)
    \/ UpdateProduct(1, 1000, 1)
    \/ DeleteProduct(5)
    \/ \E saleId \in Ids(sales) : ToggleResolving(saleId)
    \/ \E saleId \in Ids(sales) : ResolvePendingSale(saleId, "pix")
    \/ \E task \in tasks, ok \in BOOLEAN : CompleteCall(task, ok)

InitSync == InitCheckout /\ cloud

SpecSync == InitSync /\ [][NextSync]_vars

\* The dashboard's totals: the dashboard open on a history of sales, the
\* two filters set in every way
SaleOn(date, method, total) ==
    [id |-> 0, items |-> << CartItem(Product(1, 350, 3), 1) >>, total |-> total,
     date |-> date, paymentMethod |-> method, observation |-> ""]

\* earlier today, yesterday, twenty days ago, thirty-five days ago
SaleDates == {BootTime - 1, BootTime - 12, BootTime - 20 * 24, BootTime - 35 * 24}

SampleSales ==
    {SaleOn(date, "pix", 1000) : date \in SaleDates}
        \cup {SaleOn(date, "pending", 350) : date \in SaleDates}
        \cup {SaleOn(BootTime - 1, "cash", 700)}

Histories ==
    UNION {{[i \in 1..n |-> [h[i] EXCEPT !.id = 200 + i]] : h \in [1..n -> SampleSales]}
           : n \in 0..MaxSales}

InitDash ==
    /\ cloud = FALSE
    /\ now = BootTime
    /\ uuids = 0
    /\ sales \in Histories
    /\ products = StockedProducts
    /\ loaded = Store(products, sales)
    /\ ls = Saved(loaded)
    /\ isLoading = FALSE
    /\ currentView = "DASHBOARD"
    /\ cart = <<>>
    /\ paymentMethod = "cash"
    /\ observation = ""
    /\ deliveryCost = ""
    /\ dateRange = "week"
    /\ paymentFilter = "all"
    /\ resolvingId = 0
    /\ tasks = {}
    /\ acts = 0
    /\ issued = <<>>
    /\ remoteStock = StockTable(<<>>)
    /\ aiQuery = ""
    /\ aiResponse = ""
    /\ aiLoading = FALSE
    /\ asks = <<>>
    /\ isUploading = FALSE
    /\ uploads = 0
    /\ last = Op("local", 0)

NextDash ==
    \/ \E range \in DateRanges : SetDateRange(range)
    \/ \E filter \in PaymentFilters : SetPaymentFilter(filter)

SpecDash == InitDash /\ [][NextDash]_vars

\* The cart's operations as functions of the cart and of the products prop:
\* the POS rendered with the stocked products, or with the first of them
\* gone, on any cart made from the stocked products
CartsOf(prods) ==
    LET entries(k) == {<<>>} \cup {<<CartItem(prods[k], q)>> : q \in 1..prods[k].stock}
    IN  {a \o b : a \in entries(1), b \in entries(2)}
            \cup {b \o a : a \in entries(1), b \in entries(2)}

InitQuantity ==
    /\ cloud = FALSE
    /\ now = BootTime
    /\ uuids = 0
    /\ products \in {StockedProducts, Tail(StockedProducts), <<StockedProducts[1]>>}
    /\ sales = <<>>
    /\ cart \in CartsOf(StockedProducts)
    /\ loaded = Store(products, sales)
    /\ ls = Saved(loaded)
    /\ isLoading = FALSE
    /\ currentView = "POS"
    /\ paymentMethod = "cash"
    /\ observation = ""
    /\ deliveryCost = ""
    /\ dateRange = "week"
    /\ paymentFilter = "all"
    /\ resolvingId = 0
    /\ tasks = {}
    /\ acts = 0
    /\ issued = <<>>
    /\ remoteStock = StockTable(<<>>)
    /\ aiQuery = ""
    /\ aiResponse = ""
    /\ aiLoading = FALSE
    /\ asks = <<>>
    /\ isUploading = FALSE
    /\ uploads = 0
    /\ last = Op("local", 0)

NextQuantity ==
    \/ \E i \in 1..Len(products) : AddToCart(i)
    \/ \E id \in Ids(cart), delta \in Deltas :
          /\ \A k \in 1..Len(cart) : cart[k].quantity + delta <= MaxQuantity
          /\ UpdateQuantity(id, delta)
    \/ \E id \in Ids(cart) : RemoveFromCart(id)

SpecQuantity == InitQuantity /\ [][NextQuantity]_vars

\* The dashboard's windows: the dashboard open on sales made at the edges of
\* today, of the week and of the month, and a year ago to the day
EdgeDates ==
    {BootTime - 1, BootTime - 9, BootTime - 10, BootTime - 7 * 24,
     BootTime - 7 * 24 - 1, BootTime - 30 * 24, BootTime - 30 * 24 - 1,
     BootTime - 365 * 24 - 1}

EdgeSales ==
    {SaleOn(date, "pix", 1000) : date \in EdgeDates}
        \cup {SaleOn(BootTime - 1, "pending", 350), SaleOn(BootTime - 10, "cash", 700)}

EdgeHistories ==
    UNION {{[i \in 1..n |-> [h[i] EXCEPT !.id = 200 + i]] : h \in [1..n -> EdgeSales]}
           : n \in 0..MaxSales}

InitChart ==
    /\ cloud = FALSE
    /\ now = BootTime
    /\ uuids = 0
    /\ sales \in EdgeHistories
    /\ products = StockedProducts
    /\ loaded = Store(products, sales)
    /\ ls = Saved(loaded)
    /\ isLoading = FALSE
    /\ currentView = "DASHBOARD"
    /\ cart = <<>>
    /\ paymentMethod = "cash"
    /\ observation = ""
    /\ deliveryCost = ""
    /\ dateRange = "week"
    /\ paymentFilter = "all"
    /\ resolvingId = 0
    /\ tasks = {}
    /\ acts = 0
    /\ issued = <<>>
    /\ remoteStock = StockTable(<<>>)
    /\ aiQuery = ""
    /\ aiResponse = ""
    /\ aiLoading = FALSE
    /\ asks = <<>>
    /\ isUploading = FALSE
    /\ uploads = 0
    /\ last = Op("local", 0)

SpecChart == InitChart /\ [][NextDash]_vars

\* The local mirror: every mutating action, with the backend off and on
SpecMirror == InitCheckout /\ [][NextSync]_vars

\* Reloading: every mutating action with the backend off, and the page
\* reloaded at any time, from the seed products or from a saved state
NextReload ==
    \/ LoadData
    \/ Reload
    \/ \E view \in AppViews : SetView(view)
    \/ \E i \in {Len(products)} \ {0} : AddToCart(i)
    \/ HandleCheckout
    \/ AddProduct(1000, 1)
    \/ \E id \in Ids(products) : UpdateProduct(id, 1000, 1)
    \/ \E id \in Ids(products) : DeleteProduct(id)
    \/ \E saleId \in Ids(sales) : ToggleResolving(saleId)
    \/ \E saleId \in Ids(sales) : ResolvePendingSale(saleId, "pix")

InitReload ==
    /\ Init
    /\ ~cloud
    /\ loaded \in {FetchLocal(Absent), Store(SparseProducts, <<SavedSale>>)}

SpecReload == InitReload /\ [][NextReload]_vars

\* The observation of a sale: the register with every observation and every
\* delivery text, without the backend
NextObservation ==
    \/ LoadData
    \/ \E i \in 1..Len(products) : AddToCart(i)
    \/ \E text \in Observations : SetObservation(text)
    \/ \E text \in DeliveryTexts : SetDeliveryCost(text)
    \/ HandleCheckout

SpecObservation == InitCart /\ [][NextObservation]_vars

\* The low-stock signal: shelves of four to six products, each just under or
\* just at the low-stock limit, and the shelf of six with stocks
\* 0, 3, 4, 10, 2, 1; the editor changes a stock or deletes a product
ShelfStocks == {4, 5}

Shelf(stocks) == [k \in 1..Len(stocks) |-> Product(k, 1000, stocks[k])]

Shelves ==
    {Shelf(stocks) : stocks \in UNION {[1..n -> ShelfStocks] : n \in 4..6}}
        \cup {Shelf(<<0, 3, 4, 10, 2, 1>>)}

InitStock ==
    /\ cloud = FALSE
    /\ now = BootTime
    /\ uuids = 0
    /\ sales = <<>>
    /\ products \in Shelves
    /\ loaded = Store(products, sales)
    /\ ls = Saved(loaded)
    /\ isLoading = FALSE
    /\ currentView = "DASHBOARD"
    /\ cart = <<>>
    /\ paymentMethod = "cash"
    /\ observation = ""
    /\ deliveryCost = ""
    /\ dateRange = "week"
    /\ paymentFilter = "all"
    /\ resolvingId = 0
    /\ tasks = {}
    /\ acts = 0
    /\ issued = <<>>
    /\ remoteStock = StockTable(<<>>)
    /\ aiQuery = ""
    /\ aiResponse = ""
    /\ aiLoading = FALSE
    /\ asks = <<>>
    /\ isUploading = FALSE
    /\ uploads = 0
    /\ last = Op("local", 0)

NextStock ==
    \/ \E view \in {"INVENTORY", "DASHBOARD"} : SetView(view)
    \/ \E id \in Ids(products), stock \in {4, 5} : UpdateProduct(id, 1000, stock)
    \/ \E id \in Ids(products) : DeleteProduct(id)

SpecStock == InitStock /\ [][NextStock]_vars

\* The backend behind the register and the editor: sales and edits of the
\* stock of product 1, every call carried out, the answers in any order
NextRace ==
    \/ LoadData
    \/ \E view \in {"POS", "INVENTORY"} : SetView(view)
    \/ \E i \in 1..Len(products) : AddToCart(i)
    \/ HandleCheckout
    \/ UpdateProduct(1, 350, 2)
    \/ \E task \in tasks : CompleteCall(task, TRUE)

\* the backend on, two of each product in the table, no sale yet
InitRace ==
    /\ Init
    /\ cloud
    /\ loaded = Store(StockedProducts, <<>>)
    /\ remoteStock = StockTable(StockedProducts)

SpecRace == InitRace /\ [][NextRace]_vars

\* Stock conservation: the register on every product, the editor on product
\* 5 alone, without the backend
EditedIds == {5}

NextConserve ==
    \/ LoadData
    \/ \E view \in {"POS", "INVENTORY"} : SetView(view)
    \/ \E i \in 1..Len(products) : AddToCart(i)
    \/ \E id \in Ids(cart), delta \in Deltas : UpdateQuantity(id, delta)
    \/ \E id \in Ids(cart) : RemoveFromCart(id)
    \/ HandleCheckout
    \/ \E id \in EditedIds, stock \in FormStocks : UpdateProduct(id, 1000, stock)
    \/ \E id \in EditedIds : DeleteProduct(id)

SpecConserve == InitCart /\ [][NextConserve]_vars

\* The assistant: questions typed and asked by the button or the Enter key,
\* and the answers of the service in any order
NextAssistant ==
    \/ LoadData
    \/ \E view \in {"POS", "AI_ASSISTANT"} : SetView(view)
    \/ \E text \in Questions : SetAiQuery(text)
    \/ \E byKey \in BOOLEAN : AskAI(byKey)
    \/ \E i \in 1..Len(asks) : \E outcome \in Outcomes(asks[i]) : CompleteAsk(i, outcome)

SpecAssistant == InitSales /\ [][NextAssistant]_vars

\* The loading flags: the load at mount, the assistant and the image upload,
\* each with every outcome.  Every promise that a handler awaits settles.
NextLoading ==
    \/ LoadData
    \/ LoadDataRejected
    \/ \E view \in AppViews : SetView(view)
    \/ \E text \in Questions : SetAiQuery(text)
    \/ \E byKey \in BOOLEAN : AskAI(byKey)
    \/ \E i \in 1..Len(asks) : \E outcome \in Outcomes(asks[i]) : CompleteAsk(i, outcome)
    \/ \E hasFile \in BOOLEAN : ImageUpload(hasFile)
    \/ \E ok \in BOOLEAN : CompleteUpload(ok)

SpecLoading ==
    /\ InitCheckout
    /\ [][NextLoading]_vars
    /\ WF_vars(LoadData \/ LoadDataRejected)
    /\ WF_vars(\E i \in 1..Len(asks) : \E outcome \in Outcomes(asks[i]) : CompleteAsk(i, outcome))
    /\ WF_vars(\E ok \in BOOLEAN : CompleteUpload(ok))

-----------------------------------------------------------------------------
(* Claims about the cart *)

\* the quantity of product id in a cart, 0 when it is not there
QtyOf(items, id) ==
    LET e == Find(items, LAMBDA item : item.id = id)
    IN  IF e = <<>> THEN 0 ELSE e[1].quantity

\* the stock of product id in the Product collection as it is now
LiveStock(id) == Find(products, LAMBDA p : p.id = id)[1].stock

CartWithinStock ==
    \A k \in 1..Len(cart) :
        /\ cart[k].id \in Ids(products)
        /\ cart[k].quantity <= LiveStock(cart[k].id)

\* what addItem(product) may do to a cart
AddItemContract(before, product, after) ==
    LET q == QtyOf(before, product.id)
    IN  IF product.stock <= 0 \/ q = product.stock
        THEN after = before
        ELSE IF q = 0
             THEN after = Append(before, CartItem(product, 1))
             ELSE /\ Len(after) = Len(before)
                  /\ \A k \in 1..Len(before) :
                        after[k] = IF before[k].id = product.id
                                   THEN [before[k] EXCEPT !.quantity = q + 1]
                                   ELSE before[k]

\* C1: whatever the sequence of addItem calls, no cart quantity exceeds the
\* product's stock; addItem does nothing when the stock is <= 0 or the entry
\* is at the stock, and otherwise inserts the product at quantity 1 or adds
\* exactly 1 to its quantity.
C1_AddItemWithinStock ==
    /\ []CartWithinStock
    /\ [][\A i \in 1..Len(products) :
            AddToCart(i) => AddItemContract(cart, products[i], cart')]_vars

\* an entry has been raised to its product's stock by a second addItem
C1_Witness ==
    /\ last.op = "addToCart"
    /\ \E k \in 1..Len(cart) :
          /\ cart[k].quantity >= 2
          /\ cart[k].quantity = LiveStock(cart[k].id)

\* the most a cart entry may hold: its product's stock in the Product
\* collection as it is now, or the stock the entry carries once its product
\* has left the collection
Ceiling(item) ==
    IF item.id \in Ids(products) THEN LiveStock(item.id) ELSE item.stock

StockAfterSale(before, items, after) ==
    /\ Len(after) = Len(before)
    /\ \A k \in 1..Len(before) :
          /\ after[k] = [before[k] EXCEPT
                            !.stock = before[k].stock - QtyOf(items, before[k].id)]
          /\ QtyOf(items, before[k].id) > 0 => after[k].stock >= 0

\* C3: a completed sale takes each sold quantity off its product's stock,
\* never to below zero, and leaves the other products alone.
C3_SaleKeepsStockNonNegative ==
    [][(HandleCheckout /\ cart # <<>>) => StockAfterSale(products, cart, products')]_vars

\* a sale has just sold a product out
C3_Witness ==
    /\ last = Op("handleCheckout", 1)
    /\ \E k \in 1..Len(products) :
          /\ products[k].stock = 0
          /\ QtyOf(sales[Len(sales)].items, products[k].id) >= 1

-----------------------------------------------------------------------------
(* Claims about checkout *)

LastSale(ss) == ss[Len(ss)]

\* deliveryValue as the specification has it: max(0, parsed deliveryCost or 0),
\* a comma read as the decimal separator
ClampedDeliveryValue(text) ==
    LET v == ParseFloat(ReplaceFirst(text, ",", "."))
    IN  IF v.nan THEN 0 ELSE Max(0, v.val)

\* C4: the recorded total is productsTotal + deliveryValue with
\* deliveryValue = max(0, parsed delivery cost or 0), so it is never below
\* productsTotal.
C4_TotalAddsClampedDelivery ==
    [][(HandleCheckout /\ cart # <<>>) =>
          /\ LastSale(sales').total = ProductsTotal(cart) + ClampedDeliveryValue(deliveryCost)
          /\ LastSale(sales').total >= ProductsTotal(cart)]_vars

\* C5: checkout on an empty cart changes nothing and issues no call.
C5_EmptyCheckoutIsNoOp ==
    [][(HandleCheckout /\ cart = <<>>) =>
          UNCHANGED <<cart, paymentMethod, observation, deliveryCost,
                      products, sales, uuids, ls, tasks, acts, issued>>]_vars

\* checkout has run on an empty cart with the form filled in
C5_Witness ==
    /\ last = Op("handleCheckout", 0)
    /\ cart = <<>>
    /\ paymentMethod = "card"
    /\ observation = "Joao"
    /\ deliveryCost = "2.50"
    /\ cloud

\* C6: checkout of a non-empty cart appends one Sale (a fresh id, the time
\* now, the cart's items in order, the method selected) and resets the form.
C6_CheckoutAppendsOneSale ==
    [][(HandleCheckout /\ cart # <<>>) =>
          /\ Len(sales') = Len(sales) + 1
          /\ SubSeq(sales', 1, Len(sales)) = sales
          /\ LastSale(sales').id \notin Ids(sales)
          /\ LastSale(sales').date = now
          /\ LastSale(sales').items = cart
          /\ LastSale(sales').paymentMethod = paymentMethod
          /\ cart' = <<>>
          /\ paymentMethod' = "cash"
          /\ observation' = ""
          /\ deliveryCost' = ""]_vars

\* a second sale has been recorded, this one paid by card
C6_Witness ==
    /\ last = Op("handleCheckout", 1)
    /\ Len(sales) >= 2
    /\ LastSale(sales).paymentMethod = "card"
    /\ Len(LastSale(sales).items) = 2
    /\ cart = <<>>

-----------------------------------------------------------------------------
(* Claims about the life of a sale *)

MethodOf(ss, id) == Find(ss, LAMBDA sale : sale.id = id)[1].paymentMethod

\* C7: a sale's payment method changes only from pending, to one of the four
\* ways of paying, by a resolution; no resolution acts on a sale that is
\* not pending, and a sale that is not pending keeps its method.
C7_MethodChangesOnce ==
    [][/\ \A id \in Ids(sales) :
             /\ id \in Ids(sales')
             /\ MethodOf(sales, id) # "pending" =>
                   MethodOf(sales', id) = MethodOf(sales, id)
             /\ MethodOf(sales', id) # MethodOf(sales, id) =>
                   /\ MethodOf(sales', id) \in ResolveMethods
                   /\ last' = Op("handleResolvePendingSale", id)
       /\ \A id \in Ids(sales), method \in ResolveMethods :
             ResolvePendingSale(id, method) => MethodOf(sales, id) = "pending"]_vars

\* the sale made at the register has just been resolved to card, after the
\* saved one was resolved to pix
C7_Witness ==
    /\ last = Op("handleResolvePendingSale", Uuid(0))
    /\ Len(sales) = 2
    /\ MethodOf(sales, SavedSale.id) = "pix"
    /\ MethodOf(sales, Uuid(0)) = "card"

-----------------------------------------------------------------------------
(* Claims about persistence *)

\* the in-memory collections hold the change a call is to persist
Applied(call, prods, ss) ==
    CASE call.kind \in {"products.insert", "products.update"} ->
            \E i \in 1..Len(prods) : prods[i].id = call.id /\ prods[i].stock = call.num
      [] call.kind = "products.delete" -> call.id \notin Ids(prods)
      [] call.kind = "sales.insert" ->
            /\ ss # <<>>
            /\ LastSale(ss).id = call.id
            /\ LastSale(ss).total = call.num
      [] call.kind = "sales.update" ->
            call.id \in Ids(ss) /\ MethodOf(ss, call.id) \in ResolveMethods
      [] OTHER -> FALSE

\* C8: when a mutating action issues its persistence call the in-memory
\* collections already hold its change, and the completion of a call, failed
\* or not, leaves the in-memory collections as they are.
C8_OptimisticNoRollback ==
    /\ [][acts' # acts =>
            /\ Len(issued') = Len(issued) + 1
            /\ Applied(issued'[Len(issued')], products', sales')
            /\ issued'[Len(issued')].kind = "sales.insert" =>
                  StockAfterSale(products, cart, products')]_vars
    /\ [][\A task \in tasks, ok \in BOOLEAN :
            CompleteCall(task, ok) => UNCHANGED <<products, sales, ls>>]_vars

\* the call that saves a sale has failed, and the sale and the stock it took
\* are still in memory
C8_Witness ==
    /\ last = Op("completeCall", 0)
    /\ Len(issued) = 2
    /\ issued[1].kind = "sales.insert"
    /\ issued[2].kind = "products.updateStock"
    /\ sales # loaded.sales
    /\ LastSale(sales).id = issued[1].id
    /\ products # loaded.products

\* C9: the persistence calls are issued in the order of the actions that
\* trigger them: no call of an action is issued after a call of a later one.
C9_CallsIssuedInActionOrder ==
    \A i \in 1..Len(issued), j \in 1..Len(issued) :
        i < j => issued[i].act <= issued[j].act

-----------------------------------------------------------------------------
(* Claims about the dashboard *)

\* the positions in the Sale collection of the sales the two filters keep
Kept ==
    {i \in 1..Len(sales) :
        /\ DateMatch(sales[i], dateRange, now)
        /\ PaymentMatch(sales[i], paymentFilter)}

RECURSIVE TotalOver(_)
TotalOver(positions) ==
    IF positions = {} THEN 0
    ELSE LET i == CHOOSE k \in positions : TRUE
         IN  sales[i].total + TotalOver(positions \ {i})

\* C10: received plus pending is the total of the filtered sales, each
\* filtered sale counts in one of the two, and the count of sales is the
\* number of filtered sales.
C10_TotalsPartitionFiltered ==
    /\ TotalRevenue(filteredSales) + PendingRevenue(filteredSales) = TotalOver(Kept)
    /\ TotalRevenue(filteredSales) =
          TotalOver({i \in Kept : sales[i].paymentMethod # "pending"})
    /\ PendingRevenue(filteredSales) =
          TotalOver({i \in Kept : sales[i].paymentMethod = "pending"})
    /\ TotalSalesCount(filteredSales) = Cardinality(Kept)

\* the month's sales: one received, one pending, and an older one left out
C10_Witness ==
    /\ currentView = "DASHBOARD"
    /\ dateRange = "month"
    /\ paymentFilter = "all"
    /\ Len(sales) = 3
    /\ Cardinality(Kept) = 2
    /\ TotalRevenue(filteredSales) = 1000
    /\ PendingRevenue(filteredSales) = 350

\* the sales at the given positions of the Sale collection, in its order
SalesAt(positions) ==
    LET pick[i \in 0..Len(sales)] ==
            IF i = 0 THEN <<>>
            ELSE IF i \in positions THEN Append(pick[i - 1], sales[i]) ELSE pick[i - 1]
    IN  pick[Len(sales)]

\* a sale is inside the window of the date range
InWindow(sale) ==
    CASE dateRange = "today" -> sale.date >= now - (now % 24)
      [] dateRange = "week" -> sale.date >= now - 7 * 24
      [] dateRange = "month" -> sale.date >= now - 30 * 24
      [] OTHER -> TRUE

PassesFilters(sale) ==
    /\ InWindow(sale)
    /\ paymentFilter = "all" \/ sale.paymentMethod = paymentFilter

\* C11: filteredSales is the sales that pass the date filter (from local
\* midnight, from now - 7x24h, from now - 30x24h, or all) and the payment
\* filter (all, or the method itself), in the order of the Sale collection.
C11_FilterKeepsExactlyMatching ==
    filteredSales = SalesAt({i \in 1..Len(sales) : PassesFilters(sales[i])})

\* the week's pix sales: the sale made 7x24h ago is kept, the one made an
\* hour before it and the cash sale are not
C11_Witness ==
    /\ dateRange = "week"
    /\ paymentFilter = "pix"
    /\ Len(sales) = 3
    /\ sales[1].date = BootTime - 7 * 24 - 1
    /\ sales[2].paymentMethod = "cash"
    /\ sales[3].date = BootTime - 7 * 24
    /\ filteredSales = <<sales[3]>>

\* the calendar day of a date, counted from the epoch
DayOf(date) == date \div 24

\* the total of the filtered sales made on a calendar day
DayTotal(day) ==
    SumSeq(FilterSeq(filteredSales, LAMBDA s : DayOf(s.date) = day), LAMBDA s : s.total)

\* C12: for week (month) the chart has one point for each of the last 7 (30)
\* calendar days, oldest first, valued at the total of the filtered sales of
\* that day, whatever sales pass the date filter.
C12_DaySeriesCoversWindow ==
    dateRange \in {"week", "month"} =>
        LET n == IF dateRange = "week" THEN 7 ELSE 30
        IN  /\ Len(chartData) = n
            /\ \A k \in 1..Len(chartData) :
                  /\ chartData[k].name = DayKey(now - (n - k) * 24)
                  /\ chartData[k].vendas = DayTotal(DayOf(now) - (n - k))

\* C13: for today the chart has 14 points, the hours 8 to 21 in ascending
\* order, each valued at the total of the filtered sales made in that hour
\* of the day, 0 when there is none.
C13_HourSeriesToday ==
    dateRange = "today" =>
        /\ Len(chartData) = 14
        /\ \A k \in 1..Len(chartData) :
              /\ chartData[k].name = k + 7
              /\ chartData[k].vendas =
                    TotalOver({i \in 1..Len(sales) :
                                  /\ PassesFilters(sales[i])
                                  /\ sales[i].date % 24 = k + 7})

\* today's chart on two sales made at 8h and one made at midnight: the
\* first point holds the two, the other points are 0
C13_Witness ==
    /\ dateRange = "today"
    /\ paymentFilter = "all"
    /\ Len(filteredSales) = 3
    /\ \E i \in 1..3 : sales[i].date = BootTime - 9
    /\ chartData[1] = Point(8, 1350)
    /\ \A k \in 2..14 : chartData[k].vendas = 0

\* the calendar days of the filtered sales, each once, in the order in which
\* they first occur
DaysInOrder ==
    LET fs == filteredSales
        acc[i \in 0..Len(fs)] ==
            IF i = 0 THEN <<>>
            ELSE IF \E k \in 1..Len(acc[i - 1]) : acc[i - 1][k] = DayOf(fs[i].date)
                 THEN acc[i - 1]
                 ELSE Append(acc[i - 1], DayOf(fs[i].date))
    IN  acc[Len(fs)]

\* C14: for all the chart has one bucket for each calendar day that occurs
\* among the filtered sales, in order of first occurrence, valued at the
\* total of the sales of that day alone; days of different years never
\* share a bucket.
C14_AllSeriesOneBucketPerDay ==
    dateRange = "all" =>
        /\ Len(chartData) = Len(DaysInOrder)
        /\ \A k \in 1..Len(chartData) :
              k <= Len(DaysInOrder) =>
                  /\ chartData[k].name = DayKey(DaysInOrder[k] * 24)
                  /\ chartData[k].vendas = DayTotal(DaysInOrder[k])

-----------------------------------------------------------------------------
(* Claims about local storage *)

\* C15: with the backend off no action issues a remote call and after every
\* change of the Product or Sale collection the two blobs equal the
\* collections; with the backend on local storage is never written.
C15_LocalMirrorOnlyWhenOffline ==
    /\ [](~cloud => issued = <<>> /\ tasks = {} /\ acts = 0)
    /\ [][(~cloud /\ <<products, sales>>' # <<products, sales>>) =>
            ls' = [products |-> <<products'>>, sales |-> <<sales'>>]]_vars
    /\ [][cloud => ls' = ls]_vars

\* with the backend off a sale has been made and the saved sale resolved,
\* and the blobs hold both
C15_Witness ==
    /\ ~cloud
    /\ last.op = "handleResolvePendingSale"
    /\ Len(sales) = 2
    /\ products # loaded.products
    /\ ls.sales = <<sales>>
    /\ ls.products = <<products>>

\* C16: with the backend off a reload brings back the Product and Sale
\* collections as they were (the write of the empty collections at mount
\* comes after the load has read the blobs), and with nothing in local
\* storage the load yields the seed products and no sales.
C16_ReloadRestoresCollections ==
    /\ [][Reload => loaded' = [products |-> products, sales |-> sales]]_vars
    /\ [][LoadData => products' = loaded.products /\ sales' = loaded.sales]_vars
    /\ FetchLocal([products |-> <<>>, sales |-> <<>>]) =
          [products |-> << Product(1, 350, 50), Product(5, 1000, 2) >>, sales |-> <<>>]

\* the application has come back from a reload with the two sales it had
C16_Witness ==
    /\ ~cloud
    /\ last.op = "loadData"
    /\ Len(loaded.sales) = 2
    /\ sales = loaded.sales
    /\ products = loaded.products
    /\ ls = [products |-> <<products>>, sales |-> <<sales>>]

-----------------------------------------------------------------------------
(* Claims about recorded sales *)

\* C17: no operation deletes a sale: every sale of the Sale collection stays
\* in it, at its place among the others.
C17_SalesNeverDeleted ==
    [][/\ Len(sales') >= Len(sales)
       /\ \A i \in 1..Len(sales) : i <= Len(sales') => sales'[i].id = sales[i].id]_vars

\* the sale made at the register and the saved one are both there after a
\* product was deleted and the saved sale resolved
C17_Witness ==
    /\ last = Op("handleResolvePendingSale", SavedSale.id)
    /\ Len(products) = 1
    /\ Len(sales) = 2
    /\ sales[1].id = SavedSale.id
    /\ sales[2].id = Uuid(0)

\* C18: a recorded sale keeps its id, items, total, date and observation
\* whatever comes later, and resolving a sale changes the payment method of
\* that sale alone, and no product.
C18_SaleFieldsFrozen ==
    /\ [][\A i \in 1..Len(sales) :
            i <= Len(sales') =>
                [sales'[i] EXCEPT !.paymentMethod = sales[i].paymentMethod] = sales[i]]_vars
    /\ [][\A id \in Ids(sales), method \in ResolveMethods :
            ResolvePendingSale(id, method) =>
                /\ products' = products
                /\ Len(sales') = Len(sales)
                /\ \A i \in 1..Len(sales) :
                      sales'[i] = IF sales[i].id = id
                                  THEN [sales[i] EXCEPT !.paymentMethod = method]
                                  ELSE sales[i]]_vars

\* a product has been repriced after it was sold, and the sale still holds
\* the price it was sold at
C18_Witness ==
    /\ last.op = "handleUpdateProduct"
    /\ Len(sales) = 2
    /\ sales[2].items[1].price = 350
    /\ \E k \in 1..Len(products) :
          /\ products[k].id = sales[2].items[1].id
          /\ products[k].price = 1000
    /\ sales[2].total = 350

-----------------------------------------------------------------------------
(* Claims about the inventory and the quantity buttons *)

\* C19: in every reachable state every product's stock is a non-negative
\* integer.
C19_StockNonNegative ==
    \A k \in 1..Len(products) : products[k].stock \in Nat

-----------------------------------------------------------------------------
(* Claims about the persistence of a sale *)

\* the calls of action a: those issued so far, then those its handler has
\* still to issue
Plan(iss, tks, a) ==
    LET done == FilterSeq(iss, LAMBDA c : c.act = a)
        open == {task \in tks : task.act = a}
    IN  IF open = {} THEN done
        ELSE done \o MapSeq(Tail((CHOOSE task \in open : TRUE).calls),
                            LAMBDA call : Issue(a, call))

\* the positions, in the order of the Product collection, of the products
\* that occur in a cart
SoldPositions(prods, items) ==
    LET hit == {k \in 1..Len(prods) : prods[k].id \in Ids(items)}
    IN  CHOOSE f \in [1..Cardinality(hit) -> hit] :
            \A i, j \in 1..Cardinality(hit) : i < j => f[i] < f[j]

\* C21: a sale completed with the backend on has, after the call saving the
\* sale, exactly one stock call per product of the sale and none for another
\* product, in the order of the Product collection, each with the stock
\* product.stock - item.quantity that the in-memory collection received; the
\* calls of an action are issued as they were planned, none added or dropped.
C21_OneStockCallPerSoldProduct ==
    /\ [][(cloud /\ last' = Op("handleCheckout", 1)) =>
            LET plan == Plan(issued', tasks', acts')
                pos == SoldPositions(products, cart)
            IN  /\ acts' = acts + 1
                /\ Len(plan) = 1 + Len(pos)
                /\ plan[1].kind = "sales.insert"
                /\ \A j \in 1..Len(pos) :
                      /\ plan[j + 1] =
                            Issue(acts', Call("products.updateStock",
                                              products[pos[j]].id,
                                              products'[pos[j]].stock))
                      /\ products'[pos[j]].stock =
                            products[pos[j]].stock - QtyOf(cart, products[pos[j]].id)]_vars
    /\ [][\A a \in 1..acts : Plan(issued', tasks', a) = Plan(issued, tasks, a)]_vars

\* a sale of the two products has been saved and its two stock calls have
\* been issued, in the order of the Product collection
C21_Witness ==
    /\ cloud
    /\ tasks = {}
    /\ Len(issued) = 3
    /\ issued[1].kind = "sales.insert"
    /\ issued[2] = Issue(1, Call("products.updateStock", 1, 0))
    /\ issued[3] = Issue(1, Call("products.updateStock", 5, 0))
    /\ products = << Product(1, 350, 0), Product(5, 1000, 0) >>

-----------------------------------------------------------------------------
(* Claims about the observation of a sale *)

\* the delivery-cost annotation of an amount in cents
Annotation(delivery) == "[Entrega: R$ " \o ToFixed2(delivery) \o "]"

\* text ends with a delivery-cost annotation
Annotated(text) ==
    /\ Len(text) >= Len(Annotation(0))
    /\ Char(text, Len(text)) = "]"
    /\ \E i \in 1..Len(text) : SubSeq(text, i, i + 12) = "[Entrega: R$ "

\* C22: the observation of the recorded sale carries the delivery-cost
\* annotation if and only if deliveryValue > 0: then the annotation follows
\* the text of the observation field and a blank, or is the whole observation
\* when the field is empty; otherwise the observation is the text of the field.
C22_AnnotationIffDelivery ==
    [][(HandleCheckout /\ cart # <<>>) =>
          LET deliveryValue == DeliveryValue(deliveryCost)
              recorded == LastSale(sales').observation
          IN  /\ Annotated(recorded) <=> deliveryValue > 0
              /\ deliveryValue > 0 =>
                    recorded = IF observation = ""
                               THEN Annotation(deliveryValue)
                               ELSE observation \o " " \o Annotation(deliveryValue)
              /\ deliveryValue <= 0 => recorded = observation]_vars

\* a sale has been recorded with an observation and a delivery cost
C22_Witness ==
    /\ last = Op("handleCheckout", 1)
    /\ LastSale(sales).observation = "Joao [Entrega: R$ 2.50]"
    /\ LastSale(sales).total = 350 + 250

-----------------------------------------------------------------------------
(* Claims about the low-stock signal *)

\* the positions of the products with fewer than five in stock
LowPositions == {k \in 1..Len(products) : products[k].stock < 5}

StocksOf(prods) == [k \in 1..Len(prods) |-> prods[k].stock]

\* C23: the low-stock count is the number of products with stock < 5 and the
\* alert is on if and only if that count is at least 5, whatever the Product
\* collection: stocks 0, 3, 4, 10, 2, 1 give count 5 and the alert, four
\* products low on stock give no alert.
C23_AlertIffFiveLow ==
    /\ lowStockProducts = Cardinality(LowPositions)
    /\ showStockAlert <=> Cardinality(LowPositions) >= 5
    /\ StocksOf(products) = <<0, 3, 4, 10, 2, 1>> =>
          lowStockProducts = 5 /\ showStockAlert
    /\ Cardinality(LowPositions) = 4 => ~showStockAlert

\* the editor has taken a fifth product under the limit and the dashboard
\* shows the alert
C23_Witness ==
    /\ last = Op("local", 0)
    /\ currentView = "DASHBOARD"
    /\ StocksOf(products) = <<0, 4, 4, 5, 4, 4>>
    /\ loaded.products # products
    /\ lowStockProducts = 5
    /\ showStockAlert

-----------------------------------------------------------------------------
(* Claims about the stock on the backend *)

\* C25: with every remote write carried out, once no persistence call is
\* left to issue or to complete the stock of every product on the backend is
\* its stock in memory, whatever the order of the answers.
C25_RemoteStockCatchesUp ==
    (cloud /\ ~isLoading /\ tasks = {}) =>
        \A k \in 1..Len(products) :
            /\ products[k].id \in DOMAIN remoteStock
            /\ remoteStock[products[k].id] = products[k].stock

-----------------------------------------------------------------------------
(* Claims about stock conservation *)

\* the stock of product id when loadData delivered the collections
LoadedStock(id) == Find(loaded.products, LAMBDA p : p.id = id)[1].stock

\* the units of product id in the sales recorded since the load
SoldSinceLoad(id) ==
    LET S[i \in Len(loaded.sales)..Len(sales)] ==
            IF i = Len(loaded.sales) THEN 0
            ELSE S[i - 1] + QtyOf(sales[i].items, id)
    IN  S[Len(sales)]

-----------------------------------------------------------------------------
(* Claims about the shape of the cart *)

\* the positions of a cart left when the entry of product id is taken out
Others(items, id) == {k \in 1..Len(items) : items[k].id # id}

\* C27: the cart holds at most one entry per product id and every entry has
\* an integer quantity of at least 1; removeFromCart takes out the entry of
\* the id it is given and leaves every other entry as it was, in place.
C27_CartShape ==
    /\ [](/\ \A i, j \in 1..Len(cart) : cart[i].id = cart[j].id => i = j
          /\ \A k \in 1..Len(cart) : cart[k].quantity \in Nat \ {0})
    /\ [][\A id \in Ids(cart) :
            RemoveFromCart(id) =>
                /\ id \notin Ids(cart')
                /\ Len(cart') = Len(cart) - 1
                /\ \A k \in Others(cart, id) :
                      cart'[IF \E j \in 1..k : cart[j].id = id THEN k - 1 ELSE k] = cart[k]]_vars

\* the first of two entries has been removed and the second, with two
\* units, is what the cart holds
C27_Witness ==
    /\ last = Op("removeFromCart", 0)
    /\ Len(cart) = 1
    /\ cart[1].id = 5
    /\ cart[1].quantity = 2

-----------------------------------------------------------------------------
(* Claims about the chart against the totals *)

\* the sum of the values of the chart series
ChartTotal == SumSeq(chartData, LAMBDA point : point.vendas)

\* C28: every filtered sale is counted in exactly one bucket of the chart:
\* the values of the series add up to totalReceived + totalPending, for range
\* today too when a sale was made before 08:00 or after 21:59.
C28_ChartAddsUpToTotals ==
    ChartTotal = TotalRevenue(filteredSales) + PendingRevenue(filteredSales)

-----------------------------------------------------------------------------
(* Claims about the assistant *)

\* C24: getStoreInsights fails closed: without an API key or with a request
\* that is rejected it resolves to the fixed error text, with a response it
\* returns the text of the response unmodified, and it leaves the Product and
\* Sale collections as they are.
C24_InsightsFailClosed ==
    [][\A i \in 1..Len(asks) : \A outcome \in Outcomes(asks[i]) :
          CompleteAsk(i, outcome) =>
              /\ outcome.kind = "response" => aiResponse' = outcome.text
              /\ outcome.kind # "response" => aiResponse' = ConnectError
              /\ UNCHANGED <<products, sales>>]_vars

\* C29: at most one call of getStoreInsights is out at a time, and aiLoading
\* is true exactly while one is out (so that the answer on display is that of
\* the question submitted last).
C29_OneRequestInFlight ==
    /\ Len(asks) <= 1
    /\ aiLoading <=> asks # <<>>

-----------------------------------------------------------------------------
(* Claims about the loading flags *)

\* C30: every loading flag is cleared in the end whatever the outcome of the
\* operation awaited: isLoading once fetchProducts and fetchSales have
\* resolved or rejected, the collections staying empty on a rejection;
\* aiLoading by every answer to an insights request; isUploading by every
\* upload, whether it has succeeded or failed.
C30_LoadingFlagsCleared ==
    /\ isLoading ~> ~isLoading
    /\ [][LoadDataRejected => (~isLoading' /\ products' = <<>> /\ sales' = <<>>)]_vars
    /\ aiLoading ~> ~aiLoading
    /\ [][\A i \in 1..Len(asks) : \A outcome \in Outcomes(asks[i]) :
            CompleteAsk(i, outcome) => ~aiLoading']_vars
    /\ isUploading ~> ~isUploading
    /\ [][\A ok \in BOOLEAN : CompleteUpload(ok) => ~isUploading']_vars

\* the load has been rejected, an insights request has failed and an upload
\* has failed, and no flag is left set
C30_Witness ==
    /\ last = Op("completeUpload", 0)
    /\ products = <<>>
    /\ loaded.products # <<>>
    /\ aiResponse = ConnectError
    /\ ~isLoading
    /\ ~aiLoading
    /\ ~isUploading

====
